---- MODULE Spec2Model ----
(***************************************************************************)
(* A model of src/app.py, the Upcycle.green environmental engine:          *)
(*   - compute_metrics, the score calculator        (SpecMetrics)          *)
(*   - scrape_amazon and _to_kg, the page extractor (SpecScrape)           *)
(*   - analyze_post on a fresh service              (SpecFresh)            *)
(*   - analyze_post / analyze_get and the cache     (Spec)                 *)
(*                                                                         *)
(* Python floats are modelled as exact rationals <<n, d>> in lowest terms  *)
(* with d > 0; round(x, k) is round-half-even on the exact value.          *)
(* The fields of a record are written in the order TLC stores them, which  *)
(* is not always the order of the source.                                  *)
(***************************************************************************)
EXTENDS Integers, Sequences, FiniteSets, TLC

VARIABLES
    m_in,      \* SpecMetrics: the arguments of compute_metrics
    m_out,     \* SpecMetrics: what compute_metrics returned (None before the call)
    s_env,     \* SpecScrape: the world scrape_amazon runs in (libraries, fetch, page)
    s_out,     \* SpecScrape: what scrape_amazon returned (None before the call)
    cache,     \* the module-level dict `cache`: cache_key -> stored response
    request,   \* the _AnalyzeParams of the last request handled (None before any)
    scraped,   \* analyze_post's local `scraped` in the last request (None on a cache hit)
    response,  \* what the last request returned (None before any)
    first      \* history: url -> the environmental_score returned to the first
               \* cache-enabled request for that url (None before it)

vars == <<m_in, m_out, s_env, s_out, cache, request, scraped, response, first>>

\* Python's None: for an Optional[str], for an Optional[float], for an Optional[dict]
None == "None"

NoneF == <<>>

NoneD == [none |-> TRUE]

\* the empty dict {}
EmptyDict == [k \in {} |-> NoneD]

\* the service before any request: SpecMetrics and SpecScrape leave it so
Idle ==
    /\ cache = EmptyDict /\ request = NoneD /\ scraped = NoneD /\ response = NoneD
    /\ first = EmptyDict

-----------------------------------------------------------------------------
(* Exact rational arithmetic standing for Python's float arithmetic.       *)

Abs(i) == IF i < 0 THEN -i ELSE i

RECURSIVE Gcd(_, _)
Gcd(a, b) == IF b = 0 THEN a ELSE Gcd(b, a % b)

\* n/d in lowest terms, d > 0
R(n, d) ==
    LET s == IF d < 0 THEN -1 ELSE 1
        g == Gcd(Abs(n), Abs(d))
    IN  <<(s * n) \div g, (s * d) \div g>>

Lcm(a, b) == (a \div Gcd(a, b)) * b

RAdd(x, y) ==
    LET l == Lcm(x[2], y[2])
    IN  R(x[1] * (l \div x[2]) + y[1] * (l \div y[2]), l)

RNeg(x) == <<-x[1], x[2]>>

RSub(x, y) == RAdd(x, RNeg(y))

\* cross-reduced before multiplying, so that the products stay small
RMul(x, y) ==
    LET g1 == Gcd(Abs(x[1]), y[2])
        g2 == Gcd(Abs(y[1]), x[2])
    IN  R((x[1] \div g1) * (y[1] \div g2), (x[2] \div g2) * (y[2] \div g1))

RDiv(x, y) == RMul(x, IF y[1] < 0 THEN <<-y[2], -y[1]>> ELSE <<y[2], y[1]>>)

RLt(x, y) == RSub(x, y)[1] < 0

RLe(x, y) == RSub(x, y)[1] <= 0

RMax(x, y) == IF RLt(x, y) THEN y ELSE x

Q(i) == <<i, 1>>

\* the integer nearest to n/d (n >= 0, d > 0), ties to the even one
RoundHalfEven(n, d) ==
    LET q == n \div d
        r == n % d
    IN  IF 2 * r < d THEN q
        ELSE IF 2 * r > d THEN q + 1
        ELSE IF q % 2 = 0 THEN q ELSE q + 1

RECURSIVE Pow10(_)
Pow10(k) == IF k = 0 THEN 1 ELSE 10 * Pow10(k - 1)

\* Python's round(x, k) for x >= 0 (no value rounded here is negative)
round(x, k) ==
    LET g == Gcd(Pow10(k), x[2])
    IN  R(RoundHalfEven(x[1] * (Pow10(k) \div g), x[2] \div g), Pow10(k))

-----------------------------------------------------------------------------
(* Static tables.                                                          *)

Profile(c, w, r, d) ==
    [co2_per_kg |-> c, water_per_kg |-> w, recyclability |-> r, durability |-> d]

\* the keys of MATERIAL_DATABASE in dict (insertion) order
MaterialKeys ==
    <<"steel", "aluminum", "plastic", "wood", "cotton", "polyester", "glass",
      "ceramic", "leather", "paper", "rubber">>

MATERIAL_DATABASE ==
    [k \in {MaterialKeys[i] : i \in DOMAIN MaterialKeys} |->
        CASE k = "steel"     -> Profile(R(2, 1),   Q(50),    Q(90),  Q(95))
          [] k = "aluminum"  -> Profile(R(8, 1),   Q(100),   Q(95),  Q(90))
          [] k = "plastic"   -> Profile(R(3, 1),   Q(20),    Q(30),  Q(60))
          [] k = "wood"      -> Profile(R(5, 10),  Q(10),    Q(70),  Q(70))
          [] k = "cotton"    -> Profile(R(5, 1),   Q(10000), Q(60),  Q(50))
          [] k = "polyester" -> Profile(R(6, 1),   Q(60),    Q(20),  Q(70))
          [] k = "glass"     -> Profile(R(1, 1),   Q(15),    Q(100), Q(80))
          [] k = "ceramic"   -> Profile(R(8, 10),  Q(20),    Q(40),  Q(85))
          [] k = "leather"   -> Profile(R(17, 1),  Q(17000), Q(20),  Q(90))
          [] k = "paper"     -> Profile(R(12, 10), Q(30),    Q(80),  Q(30))
          [] k = "rubber"    -> Profile(R(3, 1),   Q(40),    Q(50),  Q(70))]

TRANSPORT_DISTANCES ==
    [o \in {"China", "India", "Vietnam", "USA", "Germany", "Mexico", "Unknown"} |->
        CASE o = "China"   -> 10000
          [] o = "India"   -> 8000
          [] o = "Vietnam" -> 10000
          [] o = "USA"     -> 1000
          [] o = "Germany" -> 1000
          [] o = "Mexico"  -> 2000
          [] o = "Unknown" -> 5000]

\* the sequences over S of length at most n
RECURSIVE SeqsUpTo(_, _)
SeqsUpTo(S, n) ==
    IF n = 0 THEN {<<>>}
    ELSE LET shorter == SeqsUpTo(S, n - 1)
         IN  shorter \cup {Append(s, x) : s \in shorter, x \in S}

\* dict.get(key, default)
DictGet(d, key, default) == IF key \in DOMAIN d THEN d[key] ELSE default

\* Python truthiness of an Optional[str]
StrTruthy(s) == s # None /\ s # ""

-----------------------------------------------------------------------------
(* compute_metrics                                                         *)

\* one pass of the loop of compute_metrics over material m
MetricsStep(acc, m, w_each) ==
    IF m \in DOMAIN MATERIAL_DATABASE
    THEN LET d == MATERIAL_DATABASE[m]
         IN  [co2_manu |-> RAdd(acc.co2_manu, RMul(w_each, d.co2_per_kg)),
              water    |-> RAdd(acc.water, RMul(w_each, d.water_per_kg)),
              rec_scores |-> Append(acc.rec_scores, d.recyclability),
              dur_scores |-> Append(acc.dur_scores, d.durability)]
    ELSE [co2_manu |-> RAdd(acc.co2_manu, RMul(w_each, R(3, 1))),
          water    |-> RAdd(acc.water, RMul(w_each, Q(50))),
          rec_scores |-> Append(acc.rec_scores, Q(50)),
          dur_scores |-> Append(acc.dur_scores, Q(50))]

RECURSIVE MetricsLoop(_, _, _, _)
MetricsLoop(acc, ms, i, w_each) ==
    IF i > Len(ms) THEN acc
    ELSE MetricsLoop(MetricsStep(acc, ms[i], w_each), ms, i + 1, w_each)

RECURSIVE sum(_)
sum(xs) == IF xs = <<>> THEN Q(0) ELSE RAdd(Head(xs), sum(Tail(xs)))

\* the list `recs` of compute_metrics (the em dashes of the source are written -)
Recommendations(co2_total, recyclability, durability, eco_score) ==
    (IF RLt(Q(10), co2_total)
        THEN <<"High carbon footprint - consider locally made alternatives.">>
        ELSE <<>>)
    \o (IF RLt(recyclability, Q(50))
        THEN <<"Low recyclability - look for products with sustainable materials.">>
        ELSE <<>>)
    \o (IF RLt(durability, Q(60))
        THEN <<"May need frequent replacement - consider higher quality options.">>
        ELSE <<>>)
    \o (IF RLt(Q(70), eco_score)
        THEN <<"Good environmental profile - relatively eco-friendly choice.">>
        ELSE IF RLt(eco_score, Q(40))
        THEN <<"Consider searching for more sustainable alternatives.">>
        ELSE <<>>)

\* the manufacturing overhead of line 258, after the faulty variant that forgets it
OverheadDropped == R(1, 1)

Overhead == R(12, 10)

\* the distance default of line 260
DefaultDistance == 5000

\* lines 267 and 268, after the faulty variant of line 267 without the clamp at 0
Co2ScoreUnclamped(co2_total) == RSub(Q(100), RMul(co2_total, Q(5)))

Co2Score(co2_total) == RMax(Q(0), RSub(Q(100), RMul(co2_total, Q(5))))

WaterScore(water) == RMax(Q(0), RSub(Q(100), RDiv(water, Q(100))))

\* lines 271-289: the recommendations and the rounded result
MetricsResult(co2_manu, co2_transport, co2_total, water, recyclability, durability, eco_score) ==
    [recyclability     |-> round(recyclability, 1),
     durability        |-> round(durability, 1),
     co2_total         |-> round(co2_total, 2),
     eco_score         |-> round(eco_score, 1),
     co2_transport     |-> round(co2_transport, 2),
     co2_manufacturing |-> round(co2_manu, 2),
     water_usage       |-> round(water, 2),
     recommendations   |->
         Recommendations(co2_total, recyclability, durability, eco_score)]

\* line 269, the weighted sum
EcoScore(co2_score, water_score, recyclability, durability) ==
    RAdd(RAdd(RAdd(RMul(co2_score, R(4, 10)), RMul(water_score, R(2, 10))),
              RMul(recyclability, R(2, 10))),
         RMul(durability, R(2, 10)))

\* lines 267-269
Scores(co2_manu, co2_transport, co2_total, water, recyclability, durability) ==
    MetricsResult(co2_manu, co2_transport, co2_total, water, recyclability, durability,
                  EcoScore(Co2Score(co2_total), WaterScore(water),
                           recyclability, durability))

\* line 263
Totals(co2_manu, co2_transport, water, recyclability, durability) ==
    Scores(co2_manu, co2_transport, RAdd(co2_manu, co2_transport), water,
           recyclability, durability)

\* lines 258-265: what follows the loop
AfterLoop(acc, weight_kg, distance) ==
    Totals(RMul(acc.co2_manu, Overhead),
           RMul(RMul(RMul(weight_kg, Q(distance)), R(1, 100000)), Q(10)),
           acc.water,
           RDiv(sum(acc.rec_scores), Q(Len(acc.rec_scores))),
           RDiv(sum(acc.dur_scores), Q(Len(acc.dur_scores))))

compute_metrics(materials, weight_kg, origin) ==
    AfterLoop(MetricsLoop([co2_manu |-> Q(0), water |-> Q(0),
                           rec_scores |-> <<>>, dur_scores |-> <<>>],
                          IF materials # <<>> THEN materials ELSE <<"plastic">>,
                          1,
                          IF materials # <<>>
                              THEN RDiv(weight_kg, Q(Len(materials)))
                              ELSE weight_kg),
              weight_kg,
              DictGet(TRANSPORT_DISTANCES,
                      IF StrTruthy(origin) THEN origin ELSE "Unknown",
                      DefaultDistance))

-----------------------------------------------------------------------------
(* _to_kg and float()                                                      *)

\* A numeric string is a sequence of characters; AMAZON_WEIGHT_RE's first
\* group matches [\d\.,]+ , so these are the characters it can hold.
Digits == <<"0", "1", "2", "3", "4", "5", "6", "7", "8", "9">>

IsDigit(c) == \E i \in DOMAIN Digits : Digits[i] = c

DigitValue(c) == (CHOOSE i \in DOMAIN Digits : Digits[i] = c) - 1

RECURSIVE DigitsToInt(_)
DigitsToInt(cs) ==
    IF cs = <<>> THEN 0
    ELSE 10 * DigitsToInt(SubSeq(cs, 1, Len(cs) - 1)) + DigitValue(cs[Len(cs)])

\* value_str.replace(",", "")
RemoveCommas(cs) == SelectSeq(cs, LAMBDA c : c # ",")

\* float(s) for s over digits and ".": NoneF stands for ValueError
float(cs) ==
    LET dots == {i \in DOMAIN cs : cs[i] = "."}
        digits == SelectSeq(cs, IsDigit)
    IN  IF Cardinality(dots) > 1 \/ digits = <<>> THEN NoneF
        ELSE LET after == IF dots = {} THEN 0
                          ELSE Len(cs) - (CHOOSE i \in dots : TRUE)
             IN  R(DigitsToInt(digits), Pow10(after))

\* unit.lower() on the spellings the pages below use
lower(unit) ==
    CASE unit = "Pounds" -> "pounds"
      [] unit = "LB" -> "lb"
      [] unit = "OZ" -> "oz"
      [] unit = "Kg" -> "kg"
      [] OTHER -> unit

\* lines 93-101: the conversion of the parsed value v, u being unit.lower()
Convert(v, u) ==
    IF v = NoneF THEN [raised |-> TRUE, value |-> NoneF]
    ELSE [raised |-> FALSE,
          value |->
             IF u \in {"pounds", "pound", "lbs", "lb"}
                 THEN RMul(v, R(45359237, 100000000))
             ELSE IF u \in {"ounces", "oz"}
                 THEN RMul(RMul(v, R(283495231, 1000000000)), R(1, 10))
             ELSE IF u \in {"kilograms", "kg"} THEN v
             ELSE IF u \in {"grams", "g"} THEN RDiv(v, Q(1000))
             ELSE v]

\* _to_kg: [raised |-> TRUE] when float() raises ValueError, the kilograms otherwise
_to_kg(value_str, unit) == Convert(float(RemoveCommas(value_str)), lower(unit))

-----------------------------------------------------------------------------
(* Pages: what the selectors and regular expressions of scrape_amazon see. *)
(*                                                                         *)
(* title    the #productTitle element: None (no element) or its text       *)
(* bullets  the #feature-bullets box: NoneD, or for each <li> the set of   *)
(*          MATERIAL_DATABASE keys its lower-cased text contains, and what *)
(*          AMAZON_WEIGHT_RE finds in the text of the whole box            *)
(* rows     the detail rows, each with: whether its text contains one of   *)
(*          AMAZON_MATERIAL_KEYS, whether it has a colon, the keys of      *)
(*          MATERIAL_DATABASE the text after the first colon contains,     *)
(*          AMAZON_WEIGHT_RE's match and AMAZON_COUNTRY_RE's group 1       *)

WeightMatch(value_str, unit) == [unit |-> unit, value_str |-> value_str]

Row(label, colon, rhs, weight, country) ==
    [label |-> label, colon |-> colon, rhs |-> rhs, weight |-> weight,
     country |-> country]

RowKinds ==
    { Row(TRUE, TRUE, {"cotton", "polyester"}, NoneD, None),   \* "Fabric Type: 60% Cotton, 40% Polyester"
      Row(TRUE, FALSE, {}, NoneD, None),                       \* "Material Stainless Steel"
      Row(FALSE, TRUE, {}, WeightMatch(<<"2">>, "Pounds"), None),
                                                               \* "Item Weight: 2 Pounds"
      Row(FALSE, TRUE, {}, WeightMatch(<<"0", ".", "0", "0", "4">>, "g"), None),
                                                               \* "Item Weight: 0.004 g"
      Row(FALSE, TRUE, {}, WeightMatch(<<"1", ".", "2", ".", "3">>, "Kg"), None),
                                                               \* "Item Weight: 1.2.3 Kg"
      Row(FALSE, TRUE, {}, NoneD, "USA"),                      \* "Country of Origin: USA"
      Row(FALSE, TRUE, {}, NoneD, " ") }                       \* "Country of Origin:  - China"

BulletKinds ==
    { NoneD,
      [weight |-> NoneD, items |-> <<{"plastic"}, {"steel", "plastic"}>>],
      [weight |-> WeightMatch(<<"1", "6">>, "OZ"), items |-> <<{}>>],
      [weight |-> WeightMatch(<<"1", "6">>, "OZ"), items |-> <<{"steel"}>>] }

TitleKinds == {None, "", "Acme Steel Pan"}

MaxRows == 2

Pages == [title : TitleKinds, bullets : BulletKinds, rows : SeqsUpTo(RowKinds, MaxRows)]

\* str.strip() on the texts AMAZON_COUNTRY_RE's group 1 holds above
strip(txt) == IF txt = " " THEN "" ELSE txt

\* The world of one call: are httpx and bs4 importable, does client.get raise
\* (timeout, connection error), the status code, and the page (NoneD: empty text)
Env(libs, get_raises, status_code, page) ==
    [libs |-> libs, get_raises |-> get_raises, status_code |-> status_code,
     page |-> page]

Envs ==
    {Env(FALSE, FALSE, 200, NoneD), Env(TRUE, TRUE, 200, NoneD),
     Env(TRUE, FALSE, 404, NoneD), Env(TRUE, FALSE, 503, NoneD),
     Env(TRUE, FALSE, 200, NoneD)}
    \cup {Env(TRUE, FALSE, 200, p) : p \in Pages}

-----------------------------------------------------------------------------
(* scrape_amazon                                                           *)

\* _extract_first_text: el is None when the selector finds nothing
_extract_first_text(el) ==
    IF el # None THEN (IF el # "" THEN el ELSE None) ELSE None

\* "for k in MATERIAL_DATABASE.keys(): if k in txt and k not in hits: append"
RECURSIVE AddHits(_, _, _)
AddHits(hits, contained, i) ==
    IF i > Len(MaterialKeys) THEN hits
    ELSE LET k == MaterialKeys[i]
         IN  AddHits(IF k \in contained /\ \A j \in DOMAIN hits : hits[j] # k
                        THEN Append(hits, k) ELSE hits,
                     contained, i + 1)

\* lines 142-147: the loop over the <li> of the bullet box
RECURSIVE BulletHits(_, _, _)
BulletHits(hits, items, i) ==
    IF i > Len(items) THEN hits
    ELSE BulletHits(AddHits(hits, items[i], 1), items, i + 1)

\* lines 167 and 181: result["weight_kg"] = round(_to_kg(...), 3); st.exc
\* records that _to_kg raised
SetWeight(st, kg) ==
    IF kg.raised THEN [st EXCEPT !.exc = TRUE]
    ELSE [st EXCEPT !.weight_kg = round(kg.value, 3)]

\* lines 164-167 and 177-181: a weight match is converted when no weight is
\* set yet
TakeWeight(st, m_w) ==
    IF m_w # NoneD /\ st.weight_kg = NoneF
    THEN SetWeight(st, _to_kg(m_w.value_str, m_w.unit))
    ELSE st

\* lines 169-172
TakeOrigin(st, m_c) ==
    IF m_c # None /\ ~StrTruthy(st.origin)
    THEN [st EXCEPT !.origin = strip(m_c)] ELSE st

\* lines 154-162: the loop over AMAZON_MATERIAL_KEYS repeats the same
\* idempotent step for every label the row contains, so one step stands for it
TakeMaterials(st, row) ==
    IF row.label /\ row.colon
    THEN [st EXCEPT !.material_hits = AddHits(st.material_hits, row.rhs, 1)]
    ELSE st

\* lines 169-172 run unless line 167 raised
OriginUnlessRaised(st, m_c) == IF st.exc THEN st ELSE TakeOrigin(st, m_c)

\* lines 151-172: one detail row
RowStep(st, row) ==
    OriginUnlessRaised(TakeWeight(TakeMaterials(st, row), row.weight), row.country)

RECURSIVE RowLoop(_, _, _)
RowLoop(st, rows, i) ==
    IF i > Len(rows) \/ st.exc THEN st
    ELSE RowLoop(RowStep(st, rows[i]), rows, i + 1)

EmptyResult == [weight_kg |-> NoneF, materials |-> <<>>, origin |-> None, title |-> None]

\* lines 183-188
MissNotes(result) ==
    (IF result.materials = <<>>
        THEN <<"No materials found in page; will fall back to heuristics">> ELSE <<>>)
    \o (IF result.weight_kg = NoneF
        THEN <<"No weight found in page; will fall back to heuristics">> ELSE <<>>)
    \o (IF ~StrTruthy(result.origin)
        THEN <<"No country of origin found; defaulting to Unknown">> ELSE <<>>)

\* lines 183-188: the notes on the fields the page did not give
Parsed(result) == [exc |-> FALSE, result |-> result, notes |-> MissNotes(result)]

\* the try block left by an exception: `result` as filled so far, no note yet
Raised(result) == [exc |-> TRUE, result |-> result, notes |-> <<>>]

\* lines 176-188: the last resort for the weight, the bullets' text (st3 is
\* the state after it), then the notes
AfterBullets(title, st, st3) ==
    IF st3.exc
    THEN Raised([weight_kg |-> st.weight_kg, materials |-> st.material_hits,
                 origin |-> st.origin, title |-> title])
    ELSE Parsed([weight_kg |-> st3.weight_kg, materials |-> st.material_hits,
                 origin |-> st3.origin, title |-> title])

\* lines 174-188: after the loop over the rows; result["materials"] is
\* assigned only if the loop did not raise
AfterRows(title, st, bullets) ==
    IF st.exc
    THEN Raised([weight_kg |-> st.weight_kg, materials |-> <<>>,
                 origin |-> st.origin, title |-> title])
    ELSE AfterBullets(title, st,
                      IF bullets # NoneD THEN TakeWeight(st, bullets.weight) ELSE st)

\* lines 132-188: the body of the try block once the page is fetched, up to
\* its end or to the exception
ParsePage(page) ==
    AfterRows(_extract_first_text(page.title),
              RowLoop([weight_kg |-> NoneF, origin |-> None, exc |-> FALSE,
                       material_hits |->
                           IF page.bullets # NoneD
                           THEN BulletHits(<<>>, page.bullets.items, 1) ELSE <<>>],
                      page.rows, 1),
              page.bullets)

Returned(result, notes) == [raised |-> FALSE, result |-> result, notes |-> notes]

\* lines 190-191: `except Exception` catches, notes the error, and line 193 returns
ExceptHandler(result, notes) == Returned(result, Append(notes, "Scrape error"))

\* lines 190-193: how the try block ends
EndTry(p) ==
    IF p.exc THEN ExceptHandler(p.result, p.notes) ELSE Returned(p.result, p.notes)

scrape_amazon(env) ==
    IF ~env.libs
    THEN Returned(EmptyResult,
                  <<"Scrape libraries not installed (httpx/bs4); using heuristics.">>)
    ELSE IF env.get_raises THEN ExceptHandler(EmptyResult, <<>>)
    ELSE IF env.status_code # 200 \/ env.page = NoneD
    THEN Returned(EmptyResult,
                  <<"Amazon returned status " \o ToString(env.status_code)>>)
    ELSE EndTry(ParsePage(env.page))

-----------------------------------------------------------------------------
(* SpecScrape: scrape_amazon applied to every world of Envs.               *)

InitScrape ==
    /\ s_env \in Envs
    /\ s_out = NoneD
    /\ m_in = NoneD /\ m_out = NoneD
    /\ Idle

CallScrapeAmazon ==
    /\ s_out = NoneD
    /\ s_out' = scrape_amazon(s_env)
    /\ UNCHANGED <<m_in, m_out, s_env, cache, request, scraped, response, first>>

NextScrape == CallScrapeAmazon

SpecScrape == InitScrape /\ [][NextScrape]_vars

-----------------------------------------------------------------------------
(* SpecMetrics: compute_metrics applied to bounded inputs.                 *)

MaxMaterials == 2

\* known materials with extreme profiles, and one name the table lacks
MetricMaterials == {"steel", "glass", "leather", "cotton", "unobtainium"}

\* 1 g, the heuristic weights 0.2 / 1.0 / 2.5 / 15.0, an odd gram count, a heavy item
MetricWeights == {R(1, 1000), R(2, 10), Q(1), R(25, 10), Q(15), R(1333, 1000), Q(400)}

MetricOrigins == {"USA", "China", "Mexico", "Unknown", "Narnia", "", None}

MetricInputs ==
    [materials : SeqsUpTo(MetricMaterials, MaxMaterials),
     weight_kg : MetricWeights,
     origin : MetricOrigins]

InitMetrics ==
    /\ m_in \in MetricInputs
    /\ m_out = NoneD
    /\ s_env = NoneD /\ s_out = NoneD
    /\ Idle

CallComputeMetrics ==
    /\ m_out = NoneD
    /\ m_out' = compute_metrics(m_in.materials, m_in.weight_kg, m_in.origin)
    /\ UNCHANGED <<m_in, s_env, s_out, cache, request, scraped, response, first>>

NextMetrics == CallComputeMetrics

SpecMetrics == InitMetrics /\ [][NextMetrics]_vars

-----------------------------------------------------------------------------
(* URLs.  A URL is its text, its "/"-separated parts, and the set of the   *)
(* keywords of app.py ("amazon.", "/dp/", "import" and those of the two    *)
(* guess_ functions) that occur in it.  The texts are lower-case, so that  *)
(* url.lower() is url.                                                     *)

Url(text, parts, has) == [text |-> text, parts |-> parts, has |-> has]

AmazonUrl ==
    Url("https://www.amazon.com/stainless-steel-frying-pan/dp/b01abcdefg",
        <<"https:", "", "www.amazon.com", "stainless-steel-frying-pan", "dp", "b01abcdefg">>,
        {"amazon.", "/dp/", "stainless", "steel", "pan"})

ImportUrl ==
    Url("https://shop.example.com/imported-office-desk",
        <<"https:", "", "shop.example.com", "imported-office-desk">>,
        {"import", "desk"})

EmptyUrl == Url("", <<"">>, {})

Urls == {AmazonUrl, ImportUrl, EmptyUrl}

\* any(k in u for k in keys)
AnyIn(url, keys) == \E k \in keys : k \in url.has

\* hashlib.md5(url.encode("utf-8")).hexdigest()
md5(url) ==
    CASE url.text = AmazonUrl.text -> "417314b043e0bc00e74e0c45a5aa720f"
      [] url.text = ImportUrl.text -> "8d360cac4d13ff44b0de793042a6f42d"
      [] url.text = "" -> "d41d8cd98f00b204e9800998ecf8427e"

-----------------------------------------------------------------------------
(* Heuristics                                                              *)

\* material_keywords, in dict order
material_keywords ==
    << <<"steel", {"steel", "stainless", "iron", "metal"}>>,
       <<"aluminum", {"aluminum", "aluminium"}>>,
       <<"plastic", {"plastic", "polypropylene", "pp", "polyethylene", "pe", "pet",
                     "abs", "silicone", "rubber"}>>,
       <<"wood", {"wood", "bamboo", "oak", "pine", "cedar"}>>,
       <<"cotton", {"cotton"}>>,
       <<"polyester", {"polyester", "synthetic"}>>,
       <<"glass", {"glass"}>>,
       <<"ceramic", {"ceramic", "porcelain"}>>,
       <<"leather", {"leather"}>>,
       <<"paper", {"paper", "cardboard"}>> >>

RECURSIVE FoundMaterials(_, _)
FoundMaterials(url, i) ==
    IF i > Len(material_keywords) THEN <<>>
    ELSE (IF AnyIn(url, material_keywords[i][2])
             THEN <<material_keywords[i][1]>> ELSE <<>>)
         \o FoundMaterials(url, i + 1)

guess_materials(url) ==
    LET found == FoundMaterials(url, 1)
    IN  IF found # <<>> THEN found
        ELSE IF AnyIn(url, {"kitchen", "cookware", "utensil", "pan", "pot"})
            THEN <<"steel", "plastic">>
        ELSE IF AnyIn(url, {"furniture", "desk", "chair", "table", "sofa"})
            THEN <<"wood", "steel">>
        ELSE IF AnyIn(url, {"clothing", "shirt", "pants", "dress"})
            THEN <<"cotton", "polyester">>
        ELSE IF AnyIn(url, {"electronic", "computer", "laptop", "phone", "tablet"})
            THEN <<"plastic", "aluminum">>
        ELSE <<"plastic">>

guess_weight_kg(url) ==
    IF AnyIn(url, {"phone", "smartphone", "mobile"}) THEN R(2, 10)
    ELSE IF AnyIn(url, {"laptop", "notebook", "computer"}) THEN R(25, 10)
    ELSE IF AnyIn(url, {"tablet", "ipad", "kindle"}) THEN R(5, 10)
    ELSE IF AnyIn(url, {"furniture", "desk", "chair", "sofa"}) THEN Q(15)
    ELSE IF AnyIn(url, {"clothing", "shirt", "pants", "dress"}) THEN R(3, 10)
    ELSE IF AnyIn(url, {"book"}) THEN R(5, 10)
    ELSE IF AnyIn(url, {"kitchen", "cookware", "pan", "pot"}) THEN Q(2)
    ELSE IF AnyIn(url, {"toy", "game"}) THEN R(5, 10)
    ELSE Q(1)

\* part.replace("-", " ").strip()[:60].title() on the parts of the URLs above
NamePart(part) ==
    CASE part = "stainless-steel-frying-pan" -> "Stainless Steel Frying Pan"
      [] part = "www.amazon.com" -> "Www.Amazon.Com"
      [] OTHER -> part

extract_product_name_from_url(url) ==
    LET named == {i \in DOMAIN url.parts :
                     url.parts[i] = "dp" /\ i > 1 /\ NamePart(url.parts[i - 1]) # ""}
    IN  IF "/dp/" \in url.has /\ named # {}
        THEN NamePart(url.parts[(CHOOSE i \in named : \A j \in named : i <= j) - 1])
        ELSE "Product"

-----------------------------------------------------------------------------
(* analyze_post                                                            *)

\* Python truthiness of an Optional[float]
FloatTruthy(x) == x # NoneF /\ x[1] # 0

_AnalyzeParams(url, detailed, use_cache) ==
    [cache |-> use_cache, url |-> url, detailed |-> detailed]

\* lines 343-345: scraped.update(s_partial), notes.extend(s_notes)
Merged(s) == [scraped |-> s.result, notes |-> s.notes]

\* lines 340-345: the local `scraped`, and the notes, after the optional scrape;
\* env is the world scrape_amazon would run in
Scraped(url, env) ==
    IF "amazon." \in url.has THEN Merged(scrape_amazon(env))
    ELSE [scraped |-> EmptyResult, notes |-> <<>>]

\* lines 347-349: the merger
ResolveMaterials(scr, url) ==
    IF scr.materials # <<>> THEN scr.materials ELSE guess_materials(url)

\* the faulty variant that tests `is not None` where line 348 tests truthiness
ResolveWeightNotNone(scr, url) ==
    IF scr.weight_kg # NoneF THEN scr.weight_kg ELSE guess_weight_kg(url)

ResolveWeight(scr, url) ==
    IF FloatTruthy(scr.weight_kg) THEN scr.weight_kg ELSE guess_weight_kg(url)

ResolveOrigin(scr, url) ==
    IF StrTruthy(scr.origin) THEN scr.origin
    ELSE IF "import" \notin url.has THEN "China" ELSE "USA"

\* lines 353-357
min(a, b) == IF a <= b THEN a ELSE b

\* the faulty variant that forgets the cap of line 357
ConfidenceUncapped(scr) ==
    30 + (IF scr.materials # <<>> THEN 25 ELSE 0)
       + (IF FloatTruthy(scr.weight_kg) THEN 25 ELSE 0)
       + (IF StrTruthy(scr.origin) THEN 20 ELSE 0)

Confidence(scr) ==
    min(30 + (IF scr.materials # <<>> THEN 25 ELSE 0)
           + (IF FloatTruthy(scr.weight_kg) THEN 25 ELSE 0)
           + (IF StrTruthy(scr.origin) THEN 20 ELSE 0),
        95)

\* the faulty variant of line 380 that tests the weight with `is not None`
SourceTagNotNone(scr) ==
    IF scr.materials # <<>> \/ scr.weight_kg # NoneF \/ StrTruthy(scr.origin)
    THEN "scrape" ELSE "fallback"

\* line 380
SourceTag(scr) ==
    IF scr.materials # <<>> \/ FloatTruthy(scr.weight_kg) \/ StrTruthy(scr.origin)
    THEN "scrape" ELSE "fallback"

\* lines 359-385: the response (the timestamp is left out)
Assemble(url, scr, notes, materials, weight_kg, origin, metrics) ==
    [recommendations |-> metrics.recommendations,
     product_name |->
         IF StrTruthy(scr.title) THEN scr.title
         ELSE extract_product_name_from_url(url),
     environmental_score |->
         [co2_total_kg |-> metrics.co2_total,
          water_usage_liters |-> metrics.water_usage,
          recyclability_score |-> metrics.recyclability,
          durability_score |-> metrics.durability,
          overall_eco_score |-> metrics.eco_score,
          confidence_level |-> Confidence(scr)],
     details |->
         [materials |-> materials,
          origin |-> origin,
          notes |-> notes,
          estimated_weight_kg |-> weight_kg,
          co2_breakdown |-> [manufacturing |-> metrics.co2_manufacturing,
                             transport |-> metrics.co2_transport],
          source |-> SourceTag(scr)],
     cached |-> FALSE]

\* line 351
WithMetrics(url, scr, notes, materials, weight_kg, origin) ==
    Assemble(url, scr, notes, materials, weight_kg, origin,
             compute_metrics(materials, weight_kg, origin))

\* lines 347-385: the response built on a cache miss
BuildResponse(req, sc) ==
    WithMetrics(req.url, sc.scraped, sc.notes,
                ResolveMaterials(sc.scraped, req.url),
                ResolveWeight(sc.scraped, req.url),
                ResolveOrigin(sc.scraped, req.url))

\* cache[cache_key] = response
DictPut(d, key, value) ==
    [k \in DOMAIN d \cup {key} |-> IF k = key THEN value ELSE d[k]]

\* lines 332-336: is the request answered from the cache
CacheHit(req) == req.cache /\ md5(req.url) \in DOMAIN cache

\* two faulty variants of lines 387-388: one stores only the detailed answers,
\* one stores whatever the request says about the cache
CacheStoredOnlyDetailed(req, resp) ==
    IF req.cache /\ req.detailed THEN DictPut(cache, md5(req.url), resp) ELSE cache

CacheStoredAlways(req, resp) == DictPut(cache, md5(req.url), resp)

\* lines 387-388: the cache after a miss
CacheAfterMiss(req, resp) ==
    IF req.cache THEN DictPut(cache, md5(req.url), resp) ELSE cache

\* the history variable: the first answer to a cache-enabled request per url
FirstAfter(req, resp) ==
    IF req.cache /\ req.url.text \notin DOMAIN first
    THEN DictPut(first, req.url.text, resp.environmental_score) ELSE first

\* what one request leaves behind: the response returned, the cache, the history
Return(req, resp, scr, cache_after) ==
    /\ request' = req
    /\ response' = resp
    /\ scraped' = scr
    /\ cache' = cache_after
    /\ first' = FirstAfter(req, resp)
    /\ UNCHANGED <<m_in, m_out, s_env, s_out>>

\* lines 334-336: the entry, copied, with cached = True
CachedCopy(entry) == [entry EXCEPT !.cached = TRUE]

\* analyze_post, whole: env is the world a scrape would meet
HandleAnalyze(req, env) ==
    IF CacheHit(req)
    THEN Return(req, CachedCopy(cache[md5(req.url)]), NoneD, cache)
    ELSE \E sc \in {Scraped(req.url, env)} :
            \E resp \in {BuildResponse(req, sc)} :
                Return(req, resp, sc.scraped, CacheAfterMiss(req, resp))

-----------------------------------------------------------------------------
(* Spec: the service, any sequence of requests handled one at a time.      *)

\* the worlds the service's scrapes meet: every failure, and the pages
\* without detail rows
SvcEnvs == {e \in Envs : e.page = NoneD \/ e.page.rows = <<>>}

\* what a request needs of the world: nothing when it does not scrape
WorldsFor(req) ==
    IF ~CacheHit(req) /\ "amazon." \in req.url.has
    THEN SvcEnvs ELSE {Env(TRUE, FALSE, 200, NoneD)}

Init ==
    /\ Idle
    /\ m_in = NoneD /\ m_out = NoneD /\ s_env = NoneD /\ s_out = NoneD

\* POST /analyze
AnalyzePost ==
    \E url \in Urls, detailed \in BOOLEAN, use_cache \in BOOLEAN :
        LET req == _AnalyzeParams(url, detailed, use_cache)
        IN  \E env \in WorldsFor(req) : HandleAnalyze(req, env)

\* GET /analyze: builds the same _AnalyzeParams and calls analyze_post
analyze_get ==
    \E url \in Urls, detailed \in BOOLEAN, use_cache \in BOOLEAN :
        LET req == _AnalyzeParams(url, detailed, use_cache)
        IN  \E env \in WorldsFor(req) : HandleAnalyze(req, env)

Next == AnalyzePost \/ analyze_get

Spec == Init /\ [][Next]_vars

-----------------------------------------------------------------------------
(* SpecFresh: the first request to a fresh service, in every world of Envs. *)

InitFresh ==
    /\ Idle
    /\ s_env \in Envs
    /\ m_in = NoneD /\ m_out = NoneD /\ s_out = NoneD

FirstAnalyze ==
    /\ request = NoneD
    /\ \E url \in Urls, detailed \in BOOLEAN, use_cache \in BOOLEAN :
           HandleAnalyze(_AnalyzeParams(url, detailed, use_cache), s_env)

NextFresh == FirstAnalyze

SpecFresh == InitFresh /\ [][NextFresh]_vars

-----------------------------------------------------------------------------
(* Claims about compute_metrics, checked under SpecMetrics.                *)

MetricsCalled == m_out # NoneD

\* C6: for every non-empty materials list (known or unknown names), every
\* weight_kg > 0 and every origin, the eco_score compute_metrics returns lies
\* in the closed range [0, 100].
C6_EcoScoreInRange ==
    (MetricsCalled /\ m_in.materials # <<>> /\ RLt(Q(0), m_in.weight_kg))
        => (RLe(Q(0), m_out.eco_score) /\ RLe(m_out.eco_score, Q(100)))

\* C6's case: an unknown material in a heavy item, whose CO2 term is clamped at 0
C6_Witness ==
    /\ MetricsCalled
    /\ m_in.materials = <<"leather", "unobtainium">>
    /\ m_in.weight_kg = Q(400)
    /\ m_out.eco_score = Q(21)

\* The reference formula of the score calculator, in closed form.
RefProfile(m) ==
    IF m \in DOMAIN MATERIAL_DATABASE THEN MATERIAL_DATABASE[m]
    ELSE Profile(Q(3), Q(50), Q(50), Q(50))

RECURSIVE RefTotal(_, _)
RefTotal(ms, field) ==
    IF ms = <<>> THEN Q(0)
    ELSE RAdd(RefProfile(Head(ms))[field], RefTotal(Tail(ms), field))

RefCount == Q(Len(m_in.materials))

RefShare == RDiv(m_in.weight_kg, RefCount)

RefDistance ==
    IF m_in.origin \in DOMAIN TRANSPORT_DISTANCES
    THEN TRANSPORT_DISTANCES[m_in.origin] ELSE 5000

RefCo2Manufacturing ==
    RMul(R(12, 10), RMul(RefShare, RefTotal(m_in.materials, "co2_per_kg")))

RefCo2Transport == RMul(RMul(m_in.weight_kg, Q(RefDistance)), R(1, 10000))

RefCo2Total == RAdd(RefCo2Manufacturing, RefCo2Transport)

RefWater == RMul(RefShare, RefTotal(m_in.materials, "water_per_kg"))

RefRecyclability == RDiv(RefTotal(m_in.materials, "recyclability"), RefCount)

RefDurability == RDiv(RefTotal(m_in.materials, "durability"), RefCount)

RefEcoScore ==
    RAdd(RAdd(RMul(R(4, 10), RMax(Q(0), RSub(Q(100), RMul(Q(5), RefCo2Total)))),
              RMul(R(2, 10), RMax(Q(0), RSub(Q(100), RDiv(RefWater, Q(100)))))),
         RAdd(RMul(R(2, 10), RefRecyclability), RMul(R(2, 10), RefDurability)))

SteelExample == [weight_kg |-> Q(1), materials |-> <<"steel">>, origin |-> "USA"]

\* C7: on every non-empty materials list compute_metrics returns the reference
\* formula's values (rounded at the output: 2 places for the masses, 1 for the
\* scores): share = weight_kg / count; co2_manufacturing = 1.2 x sum(share x
\* co2_per_kg), unknown materials taking (3.0, 50, 50, 50); co2_transport =
\* weight_kg x distance(origin) x 0.0001, unrecognized origins taking 5000;
\* eco_score = 0.4 x max(0, 100 - 5 x co2_total) + 0.2 x max(0, 100 - water/100)
\* + 0.2 x mean recyclability + 0.2 x mean durability. And [steel], 1.0, USA
\* gives 2.4, 0.1, 2.5, 90, 95 and 91.9.
C7_MatchesReference ==
    (MetricsCalled /\ m_in.materials # <<>>) =>
        /\ m_out.co2_manufacturing = round(RefCo2Manufacturing, 2)
        /\ m_out.co2_transport = round(RefCo2Transport, 2)
        /\ m_out.co2_total = round(RefCo2Total, 2)
        /\ m_out.water_usage = round(RefWater, 2)
        /\ m_out.recyclability = round(RefRecyclability, 1)
        /\ m_out.durability = round(RefDurability, 1)
        /\ m_out.eco_score = round(RefEcoScore, 1)
        /\ m_in = SteelExample =>
            /\ m_out.co2_manufacturing = R(24, 10)
            /\ m_out.co2_transport = R(1, 10)
            /\ m_out.co2_total = R(25, 10)
            /\ m_out.recyclability = Q(90)
            /\ m_out.durability = Q(95)
            /\ m_out.eco_score = R(919, 10)

\* C7's cases: the steel example, and an unknown material from an unrecognized origin
C7_Witness == MetricsCalled /\ m_in = SteelExample

C7_WitnessDefaults ==
    /\ MetricsCalled
    /\ m_in.materials = <<"unobtainium", "cotton">>
    /\ m_in.origin = "Narnia"

-----------------------------------------------------------------------------
(* Claims about scrape_amazon, checked under SpecScrape.                   *)

ScrapeCalled == s_out # NoneD

\* the try block was left by an exception raised while parsing the page
ParseRaised ==
    /\ s_env.libs /\ ~s_env.get_raises /\ s_env.status_code = 200
    /\ s_env.page # NoneD
    /\ \E i \in DOMAIN s_out.notes : s_out.notes[i] = "Scrape error"

\* C1's failure paths: libraries missing, client.get raising, a non-200 or
\* empty response, an exception while parsing
FailurePath ==
    \/ ~s_env.libs
    \/ s_env.get_raises
    \/ s_env.status_code # 200
    \/ s_env.page = NoneD
    \/ ParseRaised

\* C1: scrape_amazon never raises, and on every failure path the signals it
\* returns are all-empty (title None, materials [], weight_kg None, origin
\* None) and its notes hold at least one note.
C1_FailureIsAllEmpty ==
    ScrapeCalled =>
        /\ ~s_out.raised
        /\ FailurePath => (s_out.result = EmptyResult /\ s_out.notes # <<>>)

\* the page was fetched and parsed to the end of the try block
ParsedPage ==
    /\ ScrapeCalled
    /\ s_env.libs /\ ~s_env.get_raises /\ s_env.status_code = 200
    /\ s_env.page # NoneD

ScrapeFields == {"title", "materials", "weight_kg", "origin"}

\* the field is of no use to the merger (lines 347-349 and 359 test truthiness)
Unresolved(result, field) ==
    CASE field = "title" -> ~StrTruthy(result.title)
      [] field = "materials" -> result.materials = <<>>
      [] field = "weight_kg" -> ~FloatTruthy(result.weight_kg)
      [] field = "origin" -> ~StrTruthy(result.origin)

\* the notes of scrape_amazon that speak of the field (none speaks of the title)
NotesAbout(field) ==
    CASE field = "title" -> {}
      [] field = "materials" ->
            {"No materials found in page; will fall back to heuristics"}
      [] field = "weight_kg" -> {"No weight found in page; will fall back to heuristics"}
      [] field = "origin" -> {"No country of origin found; defaulting to Unknown"}

\* C9: when scrape_amazon fetches and parses a page, every one of title,
\* materials, weight and origin that ends up unresolved has a diagnostic note
\* about it in the returned notes.
C9_UnresolvedFieldsNoted ==
    ParsedPage =>
        \A field \in ScrapeFields :
            Unresolved(s_out.result, field) =>
                \E i \in DOMAIN s_out.notes : s_out.notes[i] \in NotesAbout(field)

-----------------------------------------------------------------------------
(* Claims about one analyze_post run, checked under SpecFresh.             *)

Answered == response # NoneD

\* the value handed to compute_metrics is the extracted one
MaterialsExtracted == response.details.materials = scraped.materials

WeightExtracted == response.details.estimated_weight_kg = scraped.weight_kg

OriginExtracted == response.details.origin = scraped.origin

\* C2: whatever the URL and the extraction outcome, the inputs analyze_post
\* passes to compute_metrics are fully populated: materials non-empty,
\* weight_kg > 0, origin a non-empty string.
C2_ResolvedInputsPopulated ==
    Answered =>
        /\ response.details.materials # <<>>
        /\ RLt(Q(0), response.details.estimated_weight_kg)
        /\ StrTruthy(response.details.origin)

\* C2's case: weight 0.0, empty origin text and no materials were extracted,
\* and the heuristics filled all three
C2_Witness ==
    /\ Answered
    /\ scraped.materials = <<>> /\ scraped.weight_kg = Q(0) /\ scraped.origin = ""
    /\ response.details.materials = <<"steel">>
    /\ response.details.estimated_weight_kg = Q(2)
    /\ response.details.origin = "China"

ConfidenceLevel == response.environmental_score.confidence_level

C3_WitnessCapped ==
    /\ Answered
    /\ OriginExtracted /\ MaterialsExtracted /\ WeightExtracted
    /\ ConfidenceLevel = 95

\* the fetch of the page failed: libraries missing, timeout or connection
\* error, non-200 or empty response
FetchFailed ==
    \/ ~s_env.libs
    \/ s_env.get_raises
    \/ s_env.status_code # 200
    \/ s_env.page = NoneD

\* C4: source is "scrape" exactly when at least one of materials, weight,
\* origin was extraction-derived and "fallback" otherwise; an "amazon." URL
\* whose fetch fails yields source "fallback" and confidence 30.
C4_SourceTag ==
    Answered =>
        /\ response.details.source \in {"scrape", "fallback"}
        /\ response.details.source = "scrape"
              <=> (MaterialsExtracted \/ WeightExtracted \/ OriginExtracted)
        /\ ("amazon." \in request.url.has /\ FetchFailed)
              => (response.details.source = "fallback" /\ ConfidenceLevel = 30)

\* C4's case: the amazon URL, the fetch timing out
C4_Witness ==
    /\ Answered
    /\ "amazon." \in request.url.has
    /\ s_env.get_raises
    /\ response.details.source = "fallback"

-----------------------------------------------------------------------------
(* Claims about sequences of requests, checked under Spec.                 *)

\* C5: of two requests with the same URL and the cache enabled, handled one
\* after the other with any requests in between, the second returns
\* cached = true and the environmental_score the first returned.
C5_SecondIsCached ==
    [][(request'.cache /\ request'.url.text \in DOMAIN first)
          => /\ response'.cached
             /\ response'.environmental_score = first[request'.url.text]]_vars

\* C5's case: the amazon URL answered from the cache with a scraped score
C5_Witness ==
    /\ Answered
    /\ request.cache /\ request.url = AmazonUrl
    /\ response.cached
    /\ response.details.source = "scrape"
    /\ response.environmental_score = first[AmazonUrl.text]

\* C8: a request with detailed = false, served fresh or from the cache,
\* returns a result without the details breakdown.
C8_DetailsOnlyOnRequest ==
    (Answered /\ ~request.detailed) => "details" \notin DOMAIN response

\* C10: once the cache holds an entry for a key no later request changes or
\* removes it; a cache-disabled request neither reads nor writes the cache; a
\* cache hit returns a copy without writing; a request writes at most its own
\* key; stored entries keep cached = false and only the copies returned on a
\* hit carry cached = true.
C10_CacheFrame ==
    [][/\ \A k \in DOMAIN cache : k \in DOMAIN cache' /\ cache'[k] = cache[k]
       /\ DOMAIN cache' \subseteq DOMAIN cache \cup {md5(request'.url)}
       /\ ~request'.cache => (cache' = cache /\ ~response'.cached)
       /\ \A k \in DOMAIN cache' : ~cache'[k].cached
       /\ response'.cached =>
             /\ request'.cache /\ md5(request'.url) \in DOMAIN cache
             /\ response' = [cache[md5(request'.url)] EXCEPT !.cached = TRUE]
             /\ cache' = cache]_vars

\* C10's case: two urls cached, then a cache-disabled request for the amazon
\* URL computed another answer and the entry stayed as it was
C10_Witness ==
    /\ Answered
    /\ ~request.cache /\ request.url = AmazonUrl
    /\ md5(AmazonUrl) \in DOMAIN cache /\ md5(EmptyUrl) \in DOMAIN cache
    /\ ~response.cached
    /\ response.environmental_score # cache[md5(AmazonUrl)].environmental_score

====
